---- MODULE Spec2Model ----
(***************************************************************************)
(* ohhhllama: the proxying gateway (src/proxy/proxy.py) in front of the    *)
(* backend, its durable queue and rate-limit tables, the startup routines  *)
(* and the ingestion worker that consumes queue rows.                      *)
(*                                                                         *)
(* Strings are sequences of tokens, so that split(":"), the JSON encoding  *)
(* of hub rows and the "* m [QUEUED]" label are computed, not assumed.     *)
(* Time is counted in days: date.today() and datetime('now') are both      *)
(* read from the clock `now`.                                              *)
(***************************************************************************)
EXTENDS Integers, Sequences, FiniteSets, TLC

\* ------------------------------------------------------------------ bounds
\* Rows ever inserted (AUTOINCREMENT ids 1..MaxId).
MaxId == 2
\* Days the clock may advance.
MaxTime == 2

\* ----------------------------------------------------------- configuration
\* RATE_LIMIT, DISK_THRESHOLD and CLEANUP_DAYS are read from the environment;
\* the values below are one deployment's configuration.
RATE_LIMIT == 2
DISK_THRESHOLD == 90
CLEANUP_DAYS == 1

Threads == {"t1", "t2"}
IPs == {"10.0.0.1", "10.0.0.2"}

\* Model identifiers: a bare name and two tags of it; the names a client pulls.
NameA == <<"a">>
NameA1 == <<"a", ":", "1">>
NameA2 == <<"a", ":", "2">>
PullNames == {NameA, NameA2}
\* Hub repositories a client may name, and the quantizations it may ask for.
HubRepos == {NameA}
DEFAULT_QUANT == "Q4_K_M"
Quants == {"Q4_K_M", "Q8_0"}
\* What the backend may hold.
BackendCatalogs == {{}, {NameA1}}
\* os.statvfs(DISK_PATH): the block counts it returns, or OSError raised.
statvfs(f_blocks, f_bavail, f_frsize) ==
    [oserror |-> FALSE, f_blocks |-> f_blocks, f_bavail |-> f_bavail,
     f_frsize |-> f_frsize]
StatvfsError ==
    [oserror |-> TRUE, f_blocks |-> 0, f_bavail |-> 0, f_frsize |-> 0]
\* A file system 85% used and one 95% used.
Disk85 == statvfs(100, 15, 1024)
Disk95 == statvfs(100, 5, 1024)
DiskReadings == {StatvfsError, Disk85, Disk95}

VARIABLES
    queue,          \* table queue: a set of rows
    rate_limits,    \* table rate_limits: a set of rows
    next_id,        \* sqlite_sequence of queue: the next AUTOINCREMENT id
    now,            \* the clock, in days
    disk,           \* what os.statvfs(DISK_PATH) reads
    backend_models, \* names in the backend's /api/tags
    phase,          \* position of main(): the startup routines, then serving
    th,             \* per worker thread: the handler's position and locals
    resp,           \* the request answered by the step just taken, if any
    served,         \* per address: enqueues answered "queued" today
    started,        \* the completed rows in the table when main() was last entered
    wk,             \* per ingestion worker: its position and the row it holds
    hf              \* one run of process_huggingface_model: locals and files

vars == <<queue, rate_limits, next_id, now, disk, backend_models, phase, th,
          resp, served, started, wk, hf>>
env == <<next_id, now, disk, backend_models, phase>>

\* ------------------------------------------------------------- pure helpers
RECURSIVE Split0(_)
\* s.split(":")[0]
Split0(s) ==
    IF s = <<>> \/ Head(s) = ":" THEN <<>> ELSE <<Head(s)>> \o Split0(Tail(s))

\* json.dumps({"repo_id": repo_id, "quant": quant, "name": model_name}) with
\* name = None; each chunk of JSON syntax is one token, ":" its own token.
json_dumps(repo_id, quant) ==
    <<"{\"repo_id\"", ":", " \"">> \o repo_id
    \o <<"\", \"quant\"", ":", " \"", quant, "\", \"name\"", ":", " null}">>

\* model_data of handle_hf_queue_request
model_data(repo_id, quant) ==
    IF quant # DEFAULT_QUANT THEN json_dumps(repo_id, quant) ELSE repo_id

\* ----------------------------------------------------- float arithmetic
\* A positive Python float (IEEE 754 binary64): m is the 53-bit significand,
\* most significant bit first, and the value is m * 2^(e - 52).  The empty
\* significand is 0.0.  The arithmetic is done on 13 bits at a time (53 =
\* 1 + 4 * 13), for divisors below 2^18.
Precision == 53
Limb == 13

RECURSIVE Pow2(_)
Pow2(k) == IF k = 0 THEN 1 ELSE 2 * Pow2(k - 1)

\* The n binary digits of v, most significant first.
Bits(v, n) == [i \in 1..n |-> (v \div Pow2(n - i)) % 2]

\* The value of the n bits of s that follow position from.
RECURSIVE LimbValue(_, _, _)
LimbValue(s, from, n) ==
    IF n = 0 THEN 0 ELSE 2 * LimbValue(s, from, n - 1) + s[from + n]

\* Long division by t, Limb bits a step: the next bits of the quotient and
\* the remainder left.
DivStep(r, t) == [q |-> (r * Pow2(Limb)) \div t, r |-> (r * Pow2(Limb)) % t]

\* The bit string plus one.
Inc(bits) ==
    IF \A i \in DOMAIN bits : bits[i] = 1
    THEN <<1>> \o [i \in DOMAIN bits |-> 0]
    ELSE LET k == CHOOSE i \in DOMAIN bits :
                     bits[i] = 0 /\ \A j \in DOMAIN bits : j > i => bits[j] = 1
         IN [i \in DOMAIN bits |->
                IF i < k THEN bits[i] ELSE IF i = k THEN 1 ELSE 0]

\* Round to nearest, ties to even: bits holds Precision bits, up says that
\* the discarded part is more than half a unit of the last place and half
\* that it is exactly half.
Round(bits, e, up, half) ==
    IF up \/ (half /\ bits[Precision] = 1)
    THEN LET inc == Inc(bits)
         IN IF Len(inc) > Precision
            THEN [m |-> SubSeq(inc, 1, Precision), e |-> e + 1]
            ELSE [m |-> inc, e |-> e]
    ELSE [m |-> bits, e |-> e]

\* The least k with u * 2^k >= t
RECURSIVE Shift(_, _)
Shift(u, t) == IF u >= t THEN 0 ELSE 1 + Shift(2 * u, t)

\* used_bytes / total_bytes for integers 0 <= u <= t, 0 < t: true division,
\* correctly rounded
truediv(u, t) ==
    IF u = 0 THEN [m |-> <<>>, e |-> 0]
    ELSE LET k == Shift(u, t)
             d1 == DivStep(u * Pow2(k) - t, t)
             d2 == DivStep(d1.r, t)
             d3 == DivStep(d2.r, t)
             d4 == DivStep(d3.r, t)
         IN Round(<<1>> \o Bits(d1.q, Limb) \o Bits(d2.q, Limb)
                       \o Bits(d3.q, Limb) \o Bits(d4.q, Limb),
                  0 - k, 2 * d4.r > t, 2 * d4.r = t)

\* The binary digits of n, most significant first (<<>> for 0).
RECURSIVE Binary(_)
Binary(n) == IF n = 0 THEN <<>> ELSE Binary(n \div 2) \o <<n % 2>>

\* The significand m times c, exactly: schoolbook multiplication, a limb a
\* step, from the last limb up.
MulBits(m, c) ==
    LET p4 == LimbValue(m, 1 + 3 * Limb, Limb) * c
        p3 == LimbValue(m, 1 + 2 * Limb, Limb) * c + p4 \div Pow2(Limb)
        p2 == LimbValue(m, 1 + Limb, Limb) * c + p3 \div Pow2(Limb)
        p1 == LimbValue(m, 1, Limb) * c + p2 \div Pow2(Limb)
        p0 == m[1] * c + p1 \div Pow2(Limb)
    IN Binary(p0) \o Bits(p1 % Pow2(Limb), Limb) \o Bits(p2 % Pow2(Limb), Limb)
          \o Bits(p3 % Pow2(Limb), Limb) \o Bits(p4 % Pow2(Limb), Limb)

\* x * c for a float x and a small integer c, correctly rounded
mul(x, c) ==
    IF x.m = <<>> THEN x
    ELSE LET p == MulBits(x.m, c)
             rest == SubSeq(p, Precision + 2, Len(p))
             sticky == \E i \in DOMAIN rest : rest[i] = 1
         IN IF Len(p) = Precision THEN [m |-> p, e |-> x.e]
            ELSE Round(SubSeq(p, 1, Precision), x.e + Len(p) - Precision,
                       p[Precision + 1] = 1 /\ sticky,
                       p[Precision + 1] = 1 /\ ~sticky)

\* int(x): truncation toward zero, for x below 2^31
int(x) ==
    IF x.m = <<>> \/ x.e < 0 THEN 0 ELSE LimbValue(x.m, 0, x.e + 1)

\* used_percent = int((used_bytes / total_bytes) * 100) if total_bytes > 0
\* else 0
used_percent(stat) ==
    LET total_bytes == stat.f_blocks * stat.f_frsize
        free_bytes == stat.f_bavail * stat.f_frsize
        used_bytes == total_bytes - free_bytes
    IN IF total_bytes > 0 THEN int(mul(truediv(used_bytes, total_bytes), 100))
       ELSE 0

\* check_disk_space(): (ok, stats), on what os.statvfs(DISK_PATH) returned
check_disk_space(stat) ==
    IF stat.oserror
    THEN [ok |-> FALSE, status |-> "error", used_percent |-> 0 - 1]
    ELSE LET used == used_percent(stat)
         IN IF used >= DISK_THRESHOLD
            THEN [ok |-> FALSE, status |-> "critical", used_percent |-> used]
            ELSE IF used >= DISK_THRESHOLD - 10
            THEN [ok |-> TRUE, status |-> "warning", used_percent |-> used]
            ELSE [ok |-> TRUE, status |-> "ok", used_percent |-> used]

\* SELECT request_count FROM rate_limits WHERE ip_address = ? AND request_date = ?
current_count(ip, today) ==
    LET rows == {r \in rate_limits : r.ip_address = ip /\ r.request_date = today}
    IN IF rows = {} THEN 0 ELSE (CHOOSE r \in rows : TRUE).request_count

Max0(n) == IF n < 0 THEN 0 ELSE n

\* A limiter that still admits a request when the count has reached the limit.
check_rate_limit_inclusive(ip) ==
    [is_allowed |-> current_count(ip, now) <= RATE_LIMIT,
     remaining |-> Max0(RATE_LIMIT - current_count(ip, now))]

\* check_rate_limit(ip): (is_allowed, remaining)
check_rate_limit(ip) ==
    [is_allowed |-> current_count(ip, now) < RATE_LIMIT,
     remaining |-> Max0(RATE_LIMIT - current_count(ip, now))]

\* An upsert whose conflict branch stores 1 instead of request_count + 1.
increment_rate_limit_reset(ip) ==
    {r \in rate_limits : ~(r.ip_address = ip /\ r.request_date = now)}
    \cup {[ip_address |-> ip, request_date |-> now, request_count |-> 1]}

\* An insert that leaves an existing (ip, date) row as it is.
increment_rate_limit_or_ignore(ip) ==
    IF \E r \in rate_limits : r.ip_address = ip /\ r.request_date = now
    THEN rate_limits
    ELSE rate_limits \cup
         {[ip_address |-> ip, request_date |-> now, request_count |-> 1]}

\* increment_rate_limit(ip): the upsert, as the table it leaves
increment_rate_limit(ip) ==
    IF \E r \in rate_limits : r.ip_address = ip /\ r.request_date = now
    THEN {IF r.ip_address = ip /\ r.request_date = now
          THEN [r EXCEPT !.request_count = @ + 1] ELSE r : r \in rate_limits}
    ELSE rate_limits \cup
         {[ip_address |-> ip, request_date |-> now, request_count |-> 1]}

\* is_model_in_queue(model): SELECT COUNT(*) ... WHERE model = ? AND status = 'pending'
is_model_in_queue(model) ==
    \E r \in queue : r.model = model /\ r.status = "pending"

\* handle_hf_queue_request's own check: ... AND type = 'huggingface'
hf_in_queue(repo_id) ==
    \E r \in queue :
        r.model = repo_id /\ r.type = "huggingface" /\ r.status = "pending"

\* An insert that stores the row as already being downloaded.
NewRow_downloading(model, type, ip) ==
    [id |-> next_id, model |-> model, type |-> type, requester_ip |-> ip,
     status |-> "downloading", error |-> "NULL", created_at |-> now,
     updated_at |-> now]

\* INSERT INTO queue (model, [type,] requester_ip, status): the new row
NewRow(model, type, ip) ==
    [id |-> next_id, model |-> model, type |-> type, requester_ip |-> ip,
     status |-> "pending", error |-> "NULL", created_at |-> now,
     updated_at |-> now]

\* check_model_exists(model) against a fetched catalog
check_model_exists(model, catalog) ==
    \E m \in catalog : m = model \/ Split0(m) = Split0(model)

\* actual_models / real_model_names: every name and its base name
actual_models(catalog) == catalog \cup {Split0(m) : m \in catalog}

\* ------------------------------------------------------------ thread locals
\* What the backend returns to a relayed request: nothing yet.
NoAnswer == [kind |-> "none", status |-> 0, headers |-> <<>>, body |-> "none"]

\* A handler's locals.  name is the submitted name, model the name the
\* handler works with; disk_ok and is_allowed are what the two checks
\* returned; had_pending notes whether a pending row with the request's model
\* and its own kind existed when the dedup query ran; wroteQ / wroteR note
\* whether the request has changed a table so far; code and status are the
\* response; listing is the "models" array of a GET /api/tags response; count
\* is what a startup routine returns; method and path are the request line,
\* backend the backend's answer to a relayed request, headers and body what
\* the client is sent for it; checks is the "checks" object of a GET
\* /api/health response; active, recent and counts are the "queue" and
\* "recent" arrays and the "counts" object of a GET /api/queue response and
\* wire the status lines written to the client's connection, in order.
Idle ==
    [pc |-> "idle", op |-> "none", kind |-> "none", name |-> <<>>,
     model |-> <<>>, quant |-> "none", ip |-> "none",
     disk_ok |-> "unset", is_allowed |-> "unset", remaining |-> 0,
     had_pending |-> "unset", queue_id |-> 0,
     wroteQ |-> FALSE, wroteR |-> FALSE, code |-> 0, status |-> "none",
     listing |-> {}, count |-> 0,
     method |-> "none", path |-> <<>>, headers |-> <<>>, body |-> "none",
     backend |-> NoAnswer, checks |-> <<>>, active |-> <<>>,
     recent |-> <<>>, counts |-> <<>>, wire |-> <<>>]

YesNo(b) == IF b THEN "yes" ELSE "no"

\* A request: handler h entered from address ip with a body.
Request(h, body, ip) ==
    [Idle EXCEPT !.op = h, !.kind = body.kind, !.name = body.name,
                 !.model = body.name, !.quant = body.quant, !.ip = ip]

Wrote(l, q2, r2) ==
    [l EXCEPT !.wroteQ = @ \/ q2 # queue, !.wroteR = @ \/ r2 # rate_limits]

\* One step of thread t that does not end the request: the tables and
\* locals it leaves.
Step(t, q2, r2, l2) ==
    /\ queue' = q2
    /\ rate_limits' = r2
    /\ th' = [th EXCEPT ![t] = Wrote(l2, q2, r2)]
    /\ resp' = Idle
    /\ UNCHANGED <<served, started, wk, hf>>

\* The step of thread t that writes the response (send_json_response, or the
\* relay of the backend's answer: status "forwarded") and returns.
Reply(t, q2, r2, l2, code, status) ==
    /\ queue' = q2
    /\ rate_limits' = r2
    /\ th' = [th EXCEPT ![t] = Idle]
    /\ resp' = [Wrote(l2, q2, r2) EXCEPT !.pc = "done", !.code = code,
                                         !.status = status]
    /\ served' = IF status = "queued" /\ l2.ip \in IPs
                 THEN [served EXCEPT ![l2.ip] = @ + 1] ELSE served
    /\ UNCHANGED <<started, wk, hf>>

\* The handler raises: the connection is closed with no response written.
Raise(t, l2) ==
    /\ th' = [th EXCEPT ![t] = Idle]
    /\ resp' = [l2 EXCEPT !.pc = "done", !.status = "exception"]
    /\ UNCHANGED <<queue, rate_limits, served, started, wk, hf>>

\* ----------------------------------------------------- ingestion state
\* The ingestion workers that poll the queue table.
Workers == {"w1", "w2"}

\* A worker that holds no row.  id is the row it selected, won whether its
\* conditional update changed a row.
WkIdle == [pc |-> "idle", id |-> 0, won |-> "unset"]

\* The locals of process_huggingface_model before it is called, and the
\* files it works on: gguf_files and gguf_file are model_info.gguf_files and
\* the selected name (<<>> is None), tool the program download_gguf is
\* running, final the file at output_dir / filename, temp_dirs the list the
\* finally clause walks, disk_dirs the working directories that exist,
\* status and error the ProcessResult, failed_stage the first stage that
\* reported an error and imported whether the backend registered the model;
\* has_gguf, gguf_repo, architecture and is_convertible are model_info, steps
\* the list add_step appends to, gguf_path the local of that name (<<>> is
\* None), modelfile_from the FROM line of the Modelfile and files the GGUF
\* files the stages have produced that exist.
HfIdle ==
    [pc |-> "idle", quant |-> "none", cleanup |-> TRUE, gguf_files |-> <<>>,
     gguf_file |-> <<>>, tool |-> "none", final |-> "absent",
     temp_dirs |-> {}, disk_dirs |-> {}, status |-> "none", error |-> "none",
     failed_stage |-> "none", imported |-> FALSE,
     has_gguf |-> FALSE, gguf_repo |-> "None", architecture |-> "None",
     is_convertible |-> FALSE, steps |-> <<>>, gguf_path |-> <<>>,
     modelfile_from |-> <<>>, files |-> {}]

Init ==
    /\ queue = {}
    /\ rate_limits = {}
    /\ next_id = 1
    /\ now = 0
    /\ disk \in DiskReadings
    /\ backend_models \in BackendCatalogs
    /\ phase = "cleanup_orphaned_downloads"
    /\ th = [t \in Threads |-> Idle]
    /\ resp = Idle
    /\ served = [ip \in IPs |-> 0]
    /\ started = {}
    /\ wk = [w \in Workers |-> WkIdle]
    /\ hf = HfIdle

\* ----------------------------------------------------- requests
\* A request body: what json.loads and data.get("name") or data.get("model")
\* (data.get("repo_id") or data.get("model"), data.get("quant", "Q4_K_M"))
\* make of it.
Bodies(names, quants) ==
    {[kind |-> k, name |-> <<>>, quant |-> "none"] :
        k \in {"invalid_json", "not_object", "no_name"}}
    \cup {[kind |-> "ok", name |-> m, quant |-> q] : m \in names, q \in quants}

\* The server is listening and thread t is free to take a request.
CanAccept(t) == phase = "serving" /\ th[t].pc = "idle"

\* The handlers' common prologue: json.loads, then the name.
Prologue(t, l, missing) ==
    CASE l.kind = "invalid_json" ->
           Reply(t, queue, rate_limits, l, 400, "Invalid JSON")
      [] l.kind = "not_object" -> Raise(t, l)
      [] l.kind = "no_name" -> Reply(t, queue, rate_limits, l, 400, missing)
      [] OTHER -> FALSE

\* ----------------------------------------------------- POST /api/pull
\* do_POST -> handle_pull_request: parse the body, then check_model_exists.
\* `reachable` is whether the backend answers the catalog fetch.
PullBegin(t, body, ip, reachable) ==
    /\ CanAccept(t)
    /\ UNCHANGED env
    /\ LET l == Request("handle_pull_request", body, ip)
       IN \/ Prologue(t, l, "Model name required")
          \/ /\ l.kind = "ok"
             /\ IF reachable /\ check_model_exists(l.model, backend_models)
                THEN Reply(t, queue, rate_limits, l, 0, "forwarded")
                ELSE Step(t, queue, rate_limits, [l EXCEPT !.pc = "pull_disk"])

\* The handlers' rate check: is_allowed, remaining = check_rate_limit(client_ip)
RateChecked(l) ==
    [l EXCEPT !.is_allowed = YesNo(check_rate_limit(l.ip).is_allowed),
              !.remaining = check_rate_limit(l.ip).remaining]

\* The disk guard consulted only after the rate limiter has let the request by.
PullDisk_after_rate(t) ==
    /\ th[t].pc = "pull_disk"
    /\ UNCHANGED env
    /\ LET l == RateChecked(th[t])
           d == [l EXCEPT !.disk_ok = YesNo(check_disk_space(disk).ok)]
       IN IF l.is_allowed = "no"
          THEN Reply(t, queue, rate_limits, l, 429, "Rate limit exceeded")
          ELSE IF d.disk_ok = "no"
          THEN Reply(t, queue, rate_limits, d, 507, "Insufficient storage")
          ELSE Step(t, queue, rate_limits, [d EXCEPT !.pc = "pull_rate"])

\* disk_ok, disk_stats = check_disk_space()
PullDisk(t) ==
    /\ th[t].pc = "pull_disk"
    /\ UNCHANGED env
    /\ LET l == [th[t] EXCEPT !.disk_ok = YesNo(check_disk_space(disk).ok)]
       IN IF l.disk_ok = "no"
          THEN Reply(t, queue, rate_limits, l, 507, "Insufficient storage")
          ELSE Step(t, queue, rate_limits, [l EXCEPT !.pc = "pull_rate"])

\* A limiter that counts the rejected attempt as well.
PullRate_counts_rejected(t) ==
    /\ th[t].pc = "pull_rate"
    /\ UNCHANGED env
    /\ LET l == RateChecked(th[t])
       IN IF l.is_allowed = "no"
          THEN Reply(t, queue, increment_rate_limit(l.ip), l, 429,
                     "Rate limit exceeded")
          ELSE Step(t, queue, rate_limits, [l EXCEPT !.pc = "add_to_queue"])

PullRate(t) ==
    /\ th[t].pc = "pull_rate"
    /\ UNCHANGED env
    /\ LET l == RateChecked(th[t])
       IN IF l.is_allowed = "no"
          THEN Reply(t, queue, rate_limits, l, 429, "Rate limit exceeded")
          ELSE Step(t, queue, rate_limits, [l EXCEPT !.pc = "add_to_queue"])

\* Whether a pending row of this model and kind exists (what the
\* specification's dedup rule looks at).
PendingOf(model, type) ==
    \E r \in queue : r.model = model /\ r.type = type /\ r.status = "pending"

\* An add_to_queue that charges the quota for a duplicate as well.
PullDedup_charges_duplicate(t) ==
    /\ th[t].pc = "add_to_queue"
    /\ UNCHANGED env
    /\ LET l == [th[t] EXCEPT
                   !.had_pending = YesNo(PendingOf(th[t].model, "ollama"))]
       IN IF is_model_in_queue(l.model)
          THEN Reply(t, queue, increment_rate_limit(l.ip),
                     [l EXCEPT !.remaining = @ - 1], 202, "already_queued")
          ELSE Step(t, queue, rate_limits, [l EXCEPT !.pc = "pull_insert"])

\* add_to_queue: if is_model_in_queue(model): return already_queued
PullDedup(t) ==
    /\ th[t].pc = "add_to_queue"
    /\ UNCHANGED env
    /\ LET l == [th[t] EXCEPT
                   !.had_pending = YesNo(PendingOf(th[t].model, "ollama"))]
       IN IF is_model_in_queue(l.model)
          THEN Reply(t, queue, rate_limits, [l EXCEPT !.remaining = @ - 1],
                     202, "already_queued")
          ELSE Step(t, queue, rate_limits, [l EXCEPT !.pc = "pull_insert"])

\* add_to_queue: INSERT INTO queue (model, requester_ip, status); commit,
\* while fewer than cap rows have been inserted
PullInsertUpTo(t, cap) ==
    /\ th[t].pc = "pull_insert"
    /\ next_id <= cap
    /\ next_id' = next_id + 1
    /\ UNCHANGED <<now, disk, backend_models, phase>>
    /\ Step(t, queue \cup {NewRow(th[t].model, "ollama", th[t].ip)}, rate_limits,
            [th[t] EXCEPT !.pc = "pull_incr", !.queue_id = next_id])

PullInsert(t) == PullInsertUpTo(t, MaxId)

\* add_to_queue: increment_rate_limit(ip_address); return queued; then
\* result["rate_limit"] = {"remaining": remaining - 1}; 202
PullIncr(t) ==
    /\ th[t].pc = "pull_incr"
    /\ UNCHANGED env
    /\ Reply(t, queue, increment_rate_limit(th[t].ip),
             [th[t] EXCEPT !.remaining = @ - 1], 202, "queued")

\* ----------------------------------------------------- POST /api/hf/queue
\* do_POST -> handle_hf_queue_request: parse the body, then check_rate_limit
HfBegin(t, body, ip) ==
    /\ CanAccept(t)
    /\ UNCHANGED env
    /\ LET l == RateChecked(Request("handle_hf_queue_request", body, ip))
       IN \/ Prologue(t, Request("handle_hf_queue_request", body, ip),
                      "repo_id required")
          \/ /\ l.kind = "ok"
             /\ IF l.is_allowed = "no"
                THEN Reply(t, queue, rate_limits, l, 429, "Rate limit exceeded")
                ELSE Step(t, queue, rate_limits, [l EXCEPT !.pc = "hf_dedup"])

\* SELECT COUNT(*) ... WHERE model = ? AND type = 'huggingface' AND status = 'pending'
HfDedup(t) ==
    /\ th[t].pc = "hf_dedup"
    /\ UNCHANGED env
    /\ LET l == [th[t] EXCEPT
                   !.had_pending =
                      YesNo(PendingOf(model_data(th[t].model, th[t].quant),
                                      "huggingface"))]
       IN IF hf_in_queue(l.model)
          THEN Reply(t, queue, rate_limits, l, 200, "already_queued")
          ELSE Step(t, queue, rate_limits, [l EXCEPT !.pc = "hf_insert"])

\* INSERT INTO queue (model, type, requester_ip, status) VALUES (model_data, ...)
HfInsert(t) ==
    /\ th[t].pc = "hf_insert"
    /\ next_id <= MaxId
    /\ next_id' = next_id + 1
    /\ UNCHANGED <<now, disk, backend_models, phase>>
    /\ Step(t, queue \cup {NewRow(model_data(th[t].model, th[t].quant),
                                  "huggingface", th[t].ip)},
            rate_limits,
            [th[t] EXCEPT !.pc = "hf_incr", !.queue_id = next_id])

\* increment_rate_limit(client_ip); 202 queued
HfIncr(t) ==
    /\ th[t].pc = "hf_incr"
    /\ UNCHANGED env
    /\ Reply(t, queue, increment_rate_limit(th[t].ip), th[t], 202, "queued")

\* ----------------------------------------------------- DELETE handlers
Wrap(m) == <<"*", " ">> \o m \o <<" ", "[QUEUED]">>

RECURSIVE Remove2(_, _, _)
\* s.replace(xy, "") for the two-token text x y: left to right, non-overlapping
Remove2(s, x, y) ==
    IF Len(s) < 2 THEN s
    ELSE IF s[1] = x /\ s[2] = y THEN Remove2(SubSeq(s, 3, Len(s)), x, y)
    ELSE <<s[1]>> \o Remove2(Tail(s), x, y)

RECURSIVE Strip(_)
\* s.strip()
Strip(s) ==
    IF s = <<>> THEN s
    ELSE IF Head(s) = " " THEN Strip(Tail(s))
    ELSE IF s[Len(s)] = " " THEN Strip(SubSeq(s, 1, Len(s) - 1))
    ELSE s

\* handle_model_delete: the name with the synthetic label removed
Unwrap(model) ==
    IF Len(model) >= 2 /\ model[1] = "*" /\ model[2] = " "
       /\ \E i \in 1..Len(model) : model[i] = "[QUEUED]"
    THEN Strip(Remove2(Remove2(model, "*", " "), " ", "[QUEUED]"))
    ELSE model

\* DELETE FROM queue WHERE model = ?, the status condition forgotten.
delete_any_status(model) ==
    {r \in queue : r.model # model}

\* DELETE FROM queue WHERE model = ? AND status = 'pending': the rows left
delete_pending(model) ==
    {r \in queue : ~(r.model = model /\ r.status = "pending")}

\* do_DELETE /api/queue -> handle_queue_delete
QueueDelete(t, body) ==
    /\ CanAccept(t)
    /\ UNCHANGED env
    /\ LET l == Request("handle_queue_delete", body, "none")
       IN \/ Prologue(t, l, "Model name required")
          \/ /\ l.kind = "ok"
             /\ IF delete_pending(l.model) # queue
                THEN Reply(t, delete_pending(l.model), rate_limits, l, 200, "deleted")
                ELSE Reply(t, queue, rate_limits, l, 404, "not_found")

\* do_DELETE /api/delete -> handle_model_delete: parse, unwrap,
\* SELECT id ... WHERE model = ? AND status = 'pending'
ModelDeleteBegin(t, body) ==
    /\ CanAccept(t)
    /\ UNCHANGED env
    /\ LET l0 == Request("handle_model_delete", body, "none")
           l == [l0 EXCEPT !.model = Unwrap(l0.name)]
       IN \/ Prologue(t, l0, "Model name required")
          \/ /\ l.kind = "ok"
             /\ IF is_model_in_queue(l.model)
                THEN Step(t, queue, rate_limits, [l EXCEPT !.pc = "model_delete"])
                ELSE \* proxy_request("DELETE", clean_body)
                     Reply(t, queue, rate_limits, l, 0, "forwarded")

\* handle_model_delete: DELETE ... WHERE model = ? AND status = 'pending'; 200
ModelDelete(t) ==
    /\ th[t].pc = "model_delete"
    /\ UNCHANGED env
    /\ Reply(t, delete_pending(th[t].model), rate_limits, th[t], 200, "success")

\* ----------------------------------------------------- GET /api/tags
\* SELECT DISTINCT model, created_at FROM queue WHERE status = 'pending'
pending_pairs ==
    {<<r.model, r.created_at>> : r \in {x \in queue : x.status = "pending"}}

\* real_model_names: every backend name and its base name
real_model_names(catalog) == catalog \cup {Split0(m) : m \in catalog}

\* The backend's own entries, passed on as they are (no created_at: -1).
backend_entries(catalog) ==
    {[name |-> m, model |-> m, modified_at |-> 0 - 1] : m \in catalog}

\* The synthetic entries appended for pending models the backend lacks.
queued_entries(catalog) ==
    {[name |-> Wrap(p[1]), model |-> p[1], modified_at |-> p[2]] :
        p \in {q \in pending_pairs :
                 ~(q[1] \in real_model_names(catalog)
                   \/ Split0(q[1]) \in real_model_names(catalog))}}

\* do_GET /api/tags -> handle_tags_request
TagsRequest(t, reachable) ==
    /\ CanAccept(t)
    /\ UNCHANGED env
    /\ LET l == [Idle EXCEPT !.op = "handle_tags_request"]
       IN IF reachable
          THEN Reply(t, queue, rate_limits,
                     [l EXCEPT !.listing = backend_entries(backend_models)
                                           \cup queued_entries(backend_models)],
                     200, "tags")
          ELSE Reply(t, queue, rate_limits, l, 502, "Backend unavailable")

\* ----------------------------------------------------- dispatch and relay
Methods == {"GET", "POST", "DELETE", "PUT", "HEAD", "PATCH", "OPTIONS"}
\* self.path: the request target, a query string included.
Paths ==
    {<<"/api/queue">>, <<"/api/health">>, <<"/api/tags">>, <<"/api/pull">>,
     <<"/api/hf/queue">>, <<"/api/delete">>, <<"/api/version">>,
     <<"/api/tags", "?", "x=1">>}

\* The methods OhhhllamaHandler defines a do_<METHOD> for.
do_methods == {"GET", "POST", "DELETE", "PUT", "HEAD"}

\* BaseHTTPRequestHandler looks up do_<METHOD> (none: send_error(501)); the
\* do_ methods compare self.path.
route(method, path) ==
    IF method \notin do_methods THEN "send_error"
    ELSE IF method = "GET" THEN
        (IF path = <<"/api/queue">> THEN "handle_queue_request"
         ELSE IF path = <<"/api/health">> THEN "handle_health_request"
         ELSE IF path = <<"/api/tags">> THEN "handle_tags_request"
         ELSE "proxy_request")
    ELSE IF method = "POST" THEN
        (IF path = <<"/api/pull">> THEN "handle_pull_request"
         ELSE IF path = <<"/api/hf/queue">> THEN "handle_hf_queue_request"
         ELSE "proxy_request")
    ELSE IF method = "DELETE" THEN
        (IF path = <<"/api/queue">> THEN "handle_queue_delete"
         ELSE IF path = <<"/api/delete">> THEN "handle_model_delete"
         ELSE "proxy_request")
    ELSE "proxy_request"

\* What the backend does with a relayed request: it answers with a status,
\* headers and a body, or the connection is refused (URLError), or reading
\* from it fails (any other exception).  Once status and headers have
\* arrived, response.read may raise in the middle of the body
\* (IncompleteRead, a timeout), or the client may have gone and
\* self.wfile.write raises BrokenPipeError.
Header(n, v) == [name |-> n, value |-> v]
BackendHeaders ==
    {<<Header("Content-Type", "application/json")>>,
     <<Header("Transfer-Encoding", "chunked"),
       Header("Content-Type", "application/json")>>}
BackendAnswers ==
    {[kind |-> "answered", status |-> c, headers |-> h, body |-> "backend body"] :
        c \in {200, 404, 500}, h \in BackendHeaders}
    \cup {[NoAnswer EXCEPT !.kind = k] : k \in {"URLError", "Exception"}}
    \cup {[kind |-> k, status |-> c, headers |-> h, body |-> "backend bo"] :
            k \in {"IncompleteRead", "BrokenPipeError"}, c \in {200, 404},
            h \in BackendHeaders}

\* header.lower()
lower(n) == IF n = "Transfer-Encoding" THEN "transfer-encoding" ELSE n

\* send_response(code): the status line, then the Server and Date headers
\* BaseHTTPRequestHandler adds to every response.
send_response ==
    <<Header("Server", "BaseHTTP"), Header("Date", "now")>>

RECURSIVE copied(_)
\* for header, value in ...: if header.lower() not in ("transfer-encoding",):
\*     self.send_header(header, value)
copied(hs) ==
    IF hs = <<>> THEN <<>>
    ELSE IF lower(Head(hs).name) = "transfer-encoding" THEN copied(Tail(hs))
    ELSE <<Head(hs)>> \o copied(Tail(hs))

\* send_json_response(status_code, data): its headers
send_json_response ==
    send_response \o <<Header("Content-Type", "application/json"),
                       Header("Content-Length", "len(body)")>>

\* proxy_request: what the client is sent for the backend's answer a.  A
\* status of 400 or more reaches the code as HTTPError; both branches relay
\* status, headers and body.  An exception raised while the body is copied
\* inside the with block is caught by except Exception, which calls
\* send_json_response(500); raised by e.read() inside the HTTPError clause it
\* leaves the handler.  On a broken connection the writes of
\* send_json_response raise again and nothing more reaches the client.
proxy_request(a) ==
    IF a.kind = "answered"
    THEN [code |-> a.status, headers |-> send_response \o copied(a.headers),
          body |-> a.body, wire |-> <<a.status>>]
    ELSE IF a.kind = "URLError"
    THEN [code |-> 502, headers |-> send_json_response,
          body |-> "Backend unavailable", wire |-> <<502>>]
    ELSE IF a.kind = "Exception"
    THEN [code |-> 500, headers |-> send_json_response,
          body |-> "Internal proxy error", wire |-> <<500>>]
    ELSE [code |-> a.status, headers |-> send_response \o copied(a.headers),
          body |-> a.body,
          wire |-> IF a.kind = "IncompleteRead" /\ a.status < 400
                   THEN <<a.status, 500>> ELSE <<a.status>>]

\* A request that no handler intercepts: do_GET, do_POST, do_DELETE, do_PUT
\* and do_HEAD relay it; any other method ends in send_error(501).
Unmatched(t, method, path, a) ==
    /\ CanAccept(t)
    /\ UNCHANGED env
    /\ route(method, path) \in {"proxy_request", "send_error"}
    /\ LET l == [Idle EXCEPT !.op = route(method, path), !.method = method,
                             !.path = path]
       IN IF l.op = "send_error"
          THEN /\ a = NoAnswer
               /\ Reply(t, queue, rate_limits, l, 501, "Unsupported method")
          ELSE /\ a \in BackendAnswers
               /\ Reply(t, queue, rate_limits,
                        [l EXCEPT !.backend = a,
                                  !.headers = proxy_request(a).headers,
                                  !.body = proxy_request(a).body,
                                  !.wire = proxy_request(a).wire],
                        proxy_request(a).code, "relayed")

\* ----------------------------------------------------- startup: main()
\* The process is killed and started again: handler threads die with it.
Restart ==
    /\ phase = "serving"
    /\ phase' = "cleanup_orphaned_downloads"
    /\ th' = [t \in Threads |-> Idle]
    /\ resp' = Idle
    /\ started' = {r \in queue : r.status = "completed"}
    /\ UNCHANGED <<queue, rate_limits, next_id, now, disk, backend_models, served,
                   wk, hf>>

\* What a startup routine returns (the number of rows it changed) and logs.
Returned(routine, count, status) ==
    [Idle EXCEPT !.pc = "done", !.op = routine, !.count = count,
                 !.status = status]

\* A recovery that takes failed rows for interrupted ones as well.
orphans_reset_failed_too(q) ==
    {IF r.status \in {"downloading", "failed"}
     THEN [r EXCEPT !.status = "pending", !.updated_at = now] ELSE r : r \in q}

\* UPDATE queue SET status = 'pending', updated_at = now WHERE status = 'downloading'
orphans_reset(q) ==
    {IF r.status = "downloading"
     THEN [r EXCEPT !.status = "pending", !.updated_at = now] ELSE r : r \in q}

cleanup_orphaned_downloads ==
    /\ phase = "cleanup_orphaned_downloads"
    /\ queue' = orphans_reset(queue)
    /\ phase' = "cleanup_old_entries"
    /\ UNCHANGED <<rate_limits, next_id, now, disk, backend_models, th, served,
                   started, wk, hf>>
    /\ resp' = Returned("cleanup_orphaned_downloads",
                        Cardinality(queue \ orphans_reset(queue)), "none")

\* A sweep that also takes the rows exactly CLEANUP_DAYS old.
old_entries_removed_inclusive(q) ==
    {r \in q : ~(r.status \in {"completed", "failed"}
                 /\ r.updated_at <= now - CLEANUP_DAYS)}

\* DELETE FROM queue WHERE status IN ('completed','failed')
\*   AND updated_at < datetime('now', '-CLEANUP_DAYS days'): the rows left
old_entries_removed(q) ==
    {r \in q : ~(r.status \in {"completed", "failed"}
                 /\ r.updated_at < now - CLEANUP_DAYS)}

cleanup_old_entries ==
    /\ phase = "cleanup_old_entries"
    /\ queue' = old_entries_removed(queue)
    /\ phase' = "verify_completed_models"
    /\ UNCHANGED <<rate_limits, next_id, now, disk, backend_models, th, served,
                   started, wk, hf>>
    /\ resp' = Returned("cleanup_old_entries",
                        Cardinality(queue \ old_entries_removed(queue)), "none")

\* verify_completed_models: ids of completed rows not found in the catalog
orphaned_ids(q, catalog) ==
    {r.id : r \in {x \in q : /\ x.status = "completed"
                             /\ x.model \notin actual_models(catalog)
                             /\ Split0(x.model) \notin actual_models(catalog)}}

completed_reset(q, catalog) ==
    {IF r.id \in orphaned_ids(q, catalog)
     THEN [r EXCEPT !.status = "pending", !.updated_at = now] ELSE r : r \in q}

\* verify_completed_models; when the catalog fetch fails it returns 0
verify_completed_models(reachable) ==
    /\ phase = "verify_completed_models"
    /\ queue' = IF reachable THEN completed_reset(queue, backend_models) ELSE queue
    /\ phase' = "serving"
    /\ UNCHANGED <<rate_limits, next_id, now, disk, backend_models, th, served,
                   started, wk, hf>>
    /\ resp' = IF reachable
               THEN Returned("verify_completed_models",
                             Cardinality(orphaned_ids(queue, backend_models)),
                             "verified")
               ELSE Returned("verify_completed_models", 0,
                             "Could not verify completed models")

\* ----------------------------------------------------- ingestion worker
\* Ownership is claimed by a conditional update pending -> downloading on the id.
WorkerClaim(id) ==
    /\ \E r \in queue : r.id = id /\ r.status = "pending"
    /\ queue' = {IF r.id = id /\ r.status = "pending"
                 THEN [r EXCEPT !.status = "downloading", !.updated_at = now]
                 ELSE r : r \in queue}
    /\ UNCHANGED <<rate_limits, env, th, served, started, wk, hf>> /\ resp' = Idle

\* The owned row ends completed, or failed with the diagnostic in error.
WorkerFinish(id, ok) ==
    /\ \E r \in queue : r.id = id /\ r.status = "downloading"
    /\ queue' = {IF r.id = id /\ r.status = "downloading"
                 THEN [r EXCEPT !.status = IF ok THEN "completed" ELSE "failed",
                                !.error = IF ok THEN "NULL" ELSE "diagnostic",
                                !.updated_at = now]
                 ELSE r : r \in queue}
    /\ UNCHANGED <<rate_limits, env, th, served, started, wk, hf>> /\ resp' = Idle

\* ----------------------------------------------------- environment
\* A day passes.
Tick ==
    /\ now < MaxTime
    /\ now' = now + 1
    /\ served' = [ip \in IPs |-> 0]
    /\ UNCHANGED <<started, wk, hf>>
    /\ UNCHANGED <<queue, rate_limits, next_id, disk, backend_models, phase, th>> /\ resp' = Idle

DiskChange(d) ==
    /\ d # disk
    /\ disk' = d
    /\ UNCHANGED <<queue, rate_limits, next_id, now, backend_models, phase, th,
                   served, started, wk, hf>> /\ resp' = Idle

BackendChange(c) ==
    /\ c # backend_models
    /\ backend_models' = c
    /\ UNCHANGED <<queue, rate_limits, next_id, now, disk, phase, th, served,
                   started, wk, hf>> /\ resp' = Idle

\* ----------------------------------------------------- specifications
DeleteNames == {NameA, NameA2, Wrap(NameA2)}
OneIP == {"10.0.0.1"}

\* Thread t of T takes a POST /api/pull.
AcceptPull(T, ips, names) ==
    \E t \in T, ip \in ips, b \in Bodies(names, {"none"}), reachable \in BOOLEAN :
        PullBegin(t, b, ip, reachable)

\* Thread t of T takes a POST /api/hf/queue.
AcceptHf(T, ips, repos) ==
    \E t \in T, ip \in ips, b \in Bodies(repos, Quants) : HfBegin(t, b, ip)

\* Thread t of T takes a DELETE /api/queue or a DELETE /api/delete.
AcceptDelete(T, names) ==
    \E t \in T, b \in Bodies(names, {"none"}) :
        QueueDelete(t, b) \/ ModelDeleteBegin(t, b)

HandlePull ==
    \E t \in Threads :
        PullDisk(t) \/ PullRate(t) \/ PullDedup(t) \/ PullInsert(t) \/ PullIncr(t)

HandleHf == \E t \in Threads : HfDedup(t) \/ HfInsert(t) \/ HfIncr(t)

HandleDelete == \E t \in Threads : ModelDelete(t)

\* main() up to serve_forever
Boot ==
    \/ cleanup_orphaned_downloads
    \/ cleanup_old_entries
    \/ \E reachable \in BOOLEAN : verify_completed_models(reachable)

Worker ==
    \E id \in 1..MaxId : WorkerClaim(id) \/ \E ok \in BOOLEAN : WorkerFinish(id, ok)

DiskOrBackend ==
    \/ \E d \in DiskReadings : DiskChange(d)
    \/ \E c \in BackendCatalogs : BackendChange(c)

\* Requests handled one at a time: a request is accepted only when no other
\* is in progress.
Quiet == \A t \in Threads : th[t].pc = "idle"

\* The enqueue paths of the gateway on one day, one request at a time, with
\* the ingestion worker and a changing disk and backend beside it.
NextEnqueue ==
    \/ Quiet /\ AcceptPull({"t1"}, IPs, PullNames)
    \/ Quiet /\ AcceptHf({"t1"}, IPs, HubRepos)
    \/ HandlePull
    \/ HandleHf
    \/ Boot
    \/ Worker
    \/ DiskOrBackend

SpecEnqueue == Init /\ [][NextEnqueue]_vars

\* Two handler threads serving POST /api/pull for one model at the same
\* time, every interleaving of their store operations, the worker beside them.
NextRace ==
    \/ AcceptPull(Threads, IPs, {NameA})
    \/ HandlePull
    \/ Boot
    \/ Worker

SpecRace == Init /\ [][NextRace]_vars

\* The two delete handlers, one request at a time, on a queue filled by
\* enqueue requests of one address, interleaved with the ingestion worker.
NextDelete ==
    \/ Quiet /\ AcceptPull({"t1"}, OneIP, PullNames)
    \/ Quiet /\ AcceptHf({"t1"}, OneIP, HubRepos)
    \/ Quiet /\ AcceptDelete({"t1"}, DeleteNames)
    \/ HandlePull
    \/ HandleHf
    \/ HandleDelete
    \/ Boot
    \/ Worker

SpecDelete == Init /\ [][NextDelete]_vars

\* ----------------------------------------------------- properties
EnqueueOps == {"handle_pull_request", "handle_hf_queue_request"}
DeleteOps == {"handle_queue_delete", "handle_model_delete"}
Ids(q) == {r.id : r \in q}

\* The step just taken answered a request of handler h.
Answered(h) == resp.pc = "done" /\ resp.op = h

\* C1: at most one row with status pending per (model, kind) pair, in every
\* reachable store state.
C1_OnePendingPerModelKind ==
    \A r1, r2 \in queue :
        (/\ r1.status = "pending" /\ r2.status = "pending"
         /\ r1.model = r2.model /\ r1.type = r2.type) => r1.id = r2.id

\* C2: of two POST /api/pull for the same model handled at the same time only
\* one inserts: when a call is answered queued, the row it inserted is the
\* only pending row of its (model, kind).
C2_ConcurrentEnqueueOneRow ==
    (Answered("handle_pull_request") /\ resp.status = "queued") =>
        ~ \E r1, r2 \in queue :
              /\ r1.id = resp.queue_id /\ r2.id # r1.id
              /\ r1.status = "pending" /\ r2.status = "pending"
              /\ r2.model = r1.model /\ r2.type = r1.type

\* C3: a native enqueue answers already_queued exactly when a pending row of
\* the same model and of the native kind existed at its dedup query;
\* otherwise it inserts one row and returns that row's id.
C3_AlreadyQueuedIffSameKind ==
    (Answered("handle_pull_request")
     /\ resp.status \in {"queued", "already_queued"}) =>
        /\ resp.status = "already_queued" <=> resp.had_pending = "yes"
        /\ resp.status = "queued" =>
              /\ resp.wroteQ
              /\ resp.queue_id = next_id - 1
              /\ \E r \in queue : /\ r.id = resp.queue_id
                                   /\ r.model = resp.model
                                   /\ r.type = "ollama"

C6_RejectedPersistsNothing ==
    (resp.pc = "done" /\ resp.op \in EnqueueOps /\ resp.code \in {400, 429, 507})
        => ~resp.wroteQ /\ ~resp.wroteR

C6_Witness ==
    /\ resp.pc = "done" /\ resp.op \in EnqueueOps /\ resp.code = 429
    /\ queue # {} /\ rate_limits # {} /\ ~resp.wroteQ /\ ~resp.wroteR

\* C7: a POST /api/pull the backend does not hold is answered 507 exactly
\* when the disk guard said not ok, and then the limiter and the queue were
\* not consulted; 429 exactly when the guard said ok and the limiter denied,
\* and then the queue was not consulted; 202 only when both checks passed.
C7_CheckOrder ==
    (Answered("handle_pull_request") /\ resp.kind = "ok"
     /\ resp.status # "forwarded") =>
        /\ resp.code \in {507, 429, 202}
        /\ resp.code = 507 <=> resp.disk_ok = "no"
        /\ resp.code = 507 =>
              /\ ~check_disk_space(disk).ok
              /\ resp.is_allowed = "unset" /\ resp.had_pending = "unset"
        /\ resp.code = 429 <=> (resp.disk_ok = "yes" /\ resp.is_allowed = "no")
        /\ resp.code = 429 =>
              /\ ~check_rate_limit(resp.ip).is_allowed
              /\ resp.had_pending = "unset"
        /\ resp.code = 202 =>
              /\ resp.disk_ok = "yes" /\ resp.is_allowed = "yes"
              /\ resp.status \in {"queued", "already_queued"}

C7_Witness ==
    /\ Answered("handle_pull_request") /\ resp.code = 429
    /\ resp.disk_ok = "yes"
    /\ PendingOf(resp.model, "ollama")

\* C8: a step taken while the disk guard reports ok = false adds no row to
\* the queue table.
C8_DiskBlocksEnqueue ==
    [][(~check_disk_space(disk).ok /\ disk' = disk)
          => Ids(queue') \subseteq Ids(queue)]_vars

\* C9: a POST /api/pull is forwarded only when the requested identifier is
\* the full name or the bare name of a model the backend holds, and a
\* forwarded request writes neither table.
C9_ForwardOnlyHeld ==
    (Answered("handle_pull_request") /\ resp.status = "forwarded") =>
        /\ resp.model \in actual_models(backend_models)
        /\ ~resp.wroteQ /\ ~resp.wroteR

\* C10: every row that leaves the queue table was pending and carried the
\* model of the delete request answered by that step; every other row is
\* left as it was.
C10_DeleteOnlyPending ==
    [][\A r \in queue :
          \/ r \in queue'
          \/ /\ r.id \notin Ids(queue')
             /\ r.status = "pending"
             /\ resp'.pc = "done" /\ resp'.op \in DeleteOps
             /\ r.model = resp'.model
          \/ /\ resp'.op \notin DeleteOps
             /\ r.id \in Ids(queue')]_vars

C10_Witness ==
    /\ resp.pc = "done" /\ resp.op \in DeleteOps
    /\ resp.status \in {"deleted", "success"}
    /\ resp.wroteQ
    /\ \E r \in queue : r.model = resp.model /\ r.status = "downloading"

\* C11: DELETE /api/delete works on the unwrapped name and does exactly one
\* of two things: it answers 200 success having removed a pending row of that
\* name, or it forwards the request and has left the queue table as it was,
\* no pending row of that name existing.
C11_DeleteOneOfTwoWays ==
    (Answered("handle_model_delete") /\ resp.kind = "ok") =>
        /\ resp.model = Unwrap(resp.name)
        /\ resp.status \in {"success", "forwarded"}
        /\ resp.status = "success" => resp.code = 200 /\ resp.wroteQ
        /\ resp.status = "forwarded" =>
              ~resp.wroteQ /\ ~is_model_in_queue(resp.model)

\* ----------------------------------------------------- the merged catalog
\* A name that itself begins with the label's prefix.
StarB == <<"*", " ", "b">>
CatalogNames == {NameA2, StarB}
\* Every model string the requests of SpecCatalog can store.
StoredModels == CatalogNames \cup {model_data(r, q) : r \in HubRepos, q \in Quants}
\* The names GET /api/tags shows for them.
ShownNames == {Wrap(m) : m \in StoredModels}

\* Days the clock advances in SpecCatalog.
CatalogDays == 1

\* GET /api/tags and DELETE /api/delete of the names it shows, one request at
\* a time, on a queue filled by enqueue requests of one address over several
\* days, with the ingestion worker beside them.
NextCatalog ==
    \/ Quiet /\ AcceptPull({"t1"}, OneIP, CatalogNames)
    \/ Quiet /\ AcceptHf({"t1"}, OneIP, HubRepos)
    \/ Quiet /\ AcceptDelete({"t1"}, ShownNames)
    \/ Quiet /\ \E reachable \in BOOLEAN : TagsRequest("t1", reachable)
    \/ HandlePull
    \/ HandleHf
    \/ HandleDelete
    \/ Boot
    \/ Worker
    \/ Tick /\ now < CatalogDays

\* The state after construction, with a healthy disk (it stays so in the
\* specifications that have no DiskChange).
InitHealthy == Init /\ disk = Disk85

SpecCatalog == InitHealthy /\ [][NextCatalog]_vars

\* C12: DELETE /api/delete of the name GET /api/tags shows for a stored model
\* m ("* m [QUEUED]") unwraps to exactly m: once it is answered m has no
\* pending row left, and an answer of success is about m itself.
C12_UnwrapInvertsWrap ==
    (Answered("handle_model_delete") /\ resp.kind = "ok") =>
        \A m \in StoredModels :
            resp.name = Wrap(m) =>
                /\ ~is_model_in_queue(m)
                /\ resp.status = "success" => resp.model = m

\* C13: a GET /api/tags response never holds two entries with the same model
\* identifier.
C13_TagsNoDuplicate ==
    (Answered("handle_tags_request") /\ resp.code = 200) =>
        \A e1, e2 \in resp.listing :
            (e1.model = e2.model \/ e1.name = e2.name) => e1 = e2

\* C14: in a GET /api/tags response a model has a synthetic entry exactly
\* when it has a pending row and its identifier is neither the full name nor
\* the bare name of a backend model, and then it has one entry only.
C14_SyntheticIffPendingAndAbsent ==
    (Answered("handle_tags_request") /\ resp.code = 200) =>
        \A m \in StoredModels :
            LET shown == {e \in resp.listing : e.name = Wrap(m)}
            IN /\ shown # {} <=>
                    (is_model_in_queue(m) /\ m \notin actual_models(backend_models))
               /\ Cardinality(shown) <= 1

\* ----------------------------------------------------- startup
\* The process is started again and again on a store filled by POST /api/pull
\* requests of one address (one at a time) and worked on by the ingestion
\* worker, while days pass.
NextStartup ==
    \/ Quiet /\ AcceptPull({"t1"}, OneIP, {NameA2})
    \/ HandlePull
    \/ Boot
    \/ Restart
    \/ Worker
    \/ Tick

SpecStartup == InitHealthy /\ [][NextStartup]_vars

C16_RetentionSweep ==
    [][(phase = "cleanup_old_entries" /\ phase' # phase) =>
          /\ \A r \in queue' : ~(/\ r.status \in {"completed", "failed"}
                                 /\ r.updated_at < now - CLEANUP_DAYS)
          /\ queue' \subseteq queue
          /\ \A r \in queue \ queue' :
                /\ r.status \in {"completed", "failed"}
                /\ r.updated_at < now - CLEANUP_DAYS]_vars

C16_Witness ==
    /\ resp.pc = "done" /\ resp.op = "cleanup_old_entries"
    /\ resp.count >= 1
    /\ \E r \in queue : /\ r.status \in {"completed", "failed"}
                        /\ r.updated_at = now - CLEANUP_DAYS

\* C17: once startup has finished with the backend's catalog in hand, every
\* row that was completed when the process started and whose model is absent
\* from that catalog (full identifier and base name) is pending.
C17_CompletedAbsentBecomesPending ==
    (resp.pc = "done" /\ resp.op = "verify_completed_models"
     /\ resp.status = "verified") =>
        \A r \in started :
            (/\ r.model \notin actual_models(backend_models)
             /\ Split0(r.model) \notin actual_models(backend_models)) =>
                \E r2 \in queue : r2.id = r.id /\ r2.status = "pending"

\* ----------------------------------------------------- pass-through
\* The (method, exact path) pairs the gateway intercepts.
Intercepted ==
    {<<"GET", <<"/api/queue">> >>, <<"GET", <<"/api/health">> >>,
     <<"GET", <<"/api/tags">> >>, <<"POST", <<"/api/pull">> >>,
     <<"POST", <<"/api/hf/queue">> >>, <<"DELETE", <<"/api/queue">> >>,
     <<"DELETE", <<"/api/delete">> >>}

\* Requests of every method on every path that no handler intercepts, and
\* every way the backend may answer them.
NextProxy ==
    \/ \E method \in Methods, path \in Paths, a \in BackendAnswers \cup {NoAnswer} :
          Unmatched("t1", method, path, a)
    \/ Boot

SpecProxy == Init /\ [][NextProxy]_vars

\* The step just taken answered a request with this request line.
AnsweredLine == resp.pc = "done" /\ resp.method # "none"

\* C18: what the client receives for a relayed request the backend answered
\* is the backend's status, the backend's headers without Transfer-Encoding,
\* and the backend's body.
C18_TransparentRelay ==
    (AnsweredLine /\ resp.op = "proxy_request"
     /\ resp.backend.kind = "answered") =>
        /\ resp.code = resp.backend.status
        /\ resp.headers = copied(resp.backend.headers)
        /\ resp.body = resp.backend.body

\* C19: every request whose (method, exact path) is not an intercepted pair
\* is passed through to the backend.
C19_UnmatchedPassedThrough ==
    (AnsweredLine /\ <<resp.method, resp.path>> \notin Intercepted) =>
        resp.op = "proxy_request" /\ resp.status = "relayed"

\* C20: no request ends without an HTTP response: whenever a handler of an
\* intercepted path returns, a response has been written (a per-request
\* fault gives a 4xx or 5xx).
C20_EveryRequestAnswered ==
    (resp.pc = "done" /\ resp.op \in EnqueueOps \cup DeleteOps) =>
        /\ resp.status # "exception"
        /\ resp.kind \in {"invalid_json", "not_object", "no_name"} =>
              resp.code \in {400, 500}

\* ----------------------------------------------------- the rate counter
\* C21: when two requests of one address increment the counter of the same
\* day at the same time, in every interleaving, no increment is lost and no
\* second (ip, date) row appears: the table holds one row per (ip, date) and
\* its count is the number of increments made for the address that day.
C21_UpsertAtomic ==
    /\ \A r1, r2 \in rate_limits :
          (r1.ip_address = r2.ip_address /\ r1.request_date = r2.request_date)
              => r1 = r2
    /\ \A ip \in IPs : current_count(ip, now) = served[ip]

\* Two overlapping requests of one address have both inserted and both
\* incremented: the counter went 1, then 2.
C21_Witness ==
    /\ Answered("handle_pull_request") /\ resp.status = "queued"
    /\ current_count(resp.ip, now) = 2
    /\ Cardinality(rate_limits) = 1
    /\ \E r1, r2 \in queue :
          /\ r1.id # r2.id /\ r1.model = r2.model
          /\ r1.status = "pending" /\ r2.status = "pending"
          /\ r1.requester_ip = resp.ip /\ r2.requester_ip = resp.ip

\* ----------------------------------------------------- the quota under load
\* Rows ever inserted while the quota is raced.
MaxRaceId == 4

\* Two handler threads serving POST /api/pull of one address at the same
\* time, every interleaving of their checks, inserts and increments.
NextQuota ==
    \/ AcceptPull(Threads, OneIP, PullNames)
    \/ \E t \in Threads :
          \/ PullDisk(t) \/ PullRate(t) \/ PullDedup(t)
          \/ PullInsertUpTo(t, MaxRaceId) \/ PullIncr(t)
    \/ Boot

SpecQuota == InitHealthy /\ [][NextQuota]_vars

\* The requests of address ip that have passed the quota check and are
\* still being handled.
Passed(ip) == {t \in Threads : th[t].ip = ip /\ th[t].is_allowed = "yes"}

\* C22: with k requests of an address handled at the same time the day's
\* counter may pass RATE_LIMIT, but the counter and the requests that have
\* passed the check and are still in progress never add up to more than
\* RATE_LIMIT + k - 1; and an increment made while the counter still has the
\* value the request's own check saw never takes it above RATE_LIMIT.
C22_SoftQuota ==
    /\ [](\A ip \in IPs :
             current_count(ip, now) + Cardinality(Passed(ip))
                 <= RATE_LIMIT + Cardinality(Threads) - 1)
    /\ [][\A t \in Threads :
             (/\ th[t].pc = "pull_incr" /\ th'[t].pc = "idle"
              /\ current_count(th[t].ip, now) = RATE_LIMIT - th[t].remaining)
                 => current_count(th[t].ip, now)' <= RATE_LIMIT]_vars

\* The quota has been overshot: two requests passed the check at count
\* RATE_LIMIT - 1 and both incremented.
C22_Witness ==
    /\ Answered("handle_pull_request") /\ resp.status = "queued"
    /\ resp.remaining = 0
    /\ current_count(resp.ip, now) = RATE_LIMIT + 1

\* ----------------------------------------------------- several workers
\* FIFO by created_at, ties broken by id: the row a polling worker selects.
oldest_pending(r) ==
    /\ r.status = "pending"
    /\ \A o \in queue :
          o.status = "pending" =>
             \/ o.created_at > r.created_at
             \/ o.created_at = r.created_at /\ o.id >= r.id

\* Worker w polls the queue table and selects the oldest pending row.
WorkerPoll(w) ==
    /\ wk[w].pc = "idle"
    /\ \E r \in queue :
          /\ oldest_pending(r)
          /\ wk' = [wk EXCEPT ![w] = [pc |-> "polled", id |-> r.id,
                                      won |-> "unset"]]
    /\ UNCHANGED <<queue, rate_limits, env, th, served, started, hf>>
    /\ resp' = Idle

\* Worker w claims the row it selected by the conditional update
\* pending -> downloading on that id; it owns the row when a row was changed.
WorkerClaimBy(w) ==
    /\ wk[w].pc = "polled"
    /\ IF \E r \in queue : r.id = wk[w].id /\ r.status = "pending"
       THEN /\ queue' = {IF r.id = wk[w].id
                         THEN [r EXCEPT !.status = "downloading",
                                        !.updated_at = now]
                         ELSE r : r \in queue}
            /\ wk' = [wk EXCEPT ![w] = [@ EXCEPT !.pc = "owns", !.won = "yes"]]
       ELSE /\ queue' = queue
            /\ wk' = [wk EXCEPT ![w] = [WkIdle EXCEPT !.won = "no"]]
    /\ UNCHANGED <<rate_limits, env, th, served, started, hf>>
    /\ resp' = Idle

\* Worker w has run the pipeline on its row: completed, or failed with the
\* diagnostic in error.
WorkerFinishBy(w, ok) ==
    /\ wk[w].pc = "owns"
    /\ queue' = {IF r.id = wk[w].id
                 THEN [r EXCEPT !.status = IF ok THEN "completed" ELSE "failed",
                                !.error = IF ok THEN "NULL" ELSE "diagnostic",
                                !.updated_at = now]
                 ELSE r : r \in queue}
    /\ wk' = [wk EXCEPT ![w] = WkIdle]
    /\ UNCHANGED <<rate_limits, env, th, served, started, hf>>
    /\ resp' = Idle

\* Two ingestion workers polling the store the gateway fills, the gateway
\* being stopped and started beside them.
NextWorkers ==
    \/ Quiet /\ AcceptPull({"t1"}, OneIP, {NameA2})
    \/ HandlePull
    \/ Boot
    \/ Restart
    \/ \E w \in Workers :
          \/ WorkerPoll(w)
          \/ WorkerClaimBy(w)
          \/ \E ok \in BOOLEAN : WorkerFinishBy(w, ok)

SpecWorkers == InitHealthy /\ [][NextWorkers]_vars

\* C23: with several workers polling one store a row is owned by at most one
\* worker at a time: no two workers are processing the same row, and a
\* worker whose conditional update changed no row owns nothing.
C23_OneOwnerPerRow ==
    /\ \A w1, w2 \in Workers :
          (wk[w1].pc = "owns" /\ wk[w2].pc = "owns" /\ wk[w1].id = wk[w2].id)
              => w1 = w2
    /\ \A w \in Workers : wk[w].won = "no" => wk[w].pc = "idle"

\* ----------------------------------------------------- the life of a row
\* Every writer of the queue table side by side: enqueue and delete requests
\* handled one at a time, the ingestion worker, the clock, and the process
\* stopped and started again.
NextLifecycle ==
    \/ Quiet /\ AcceptPull({"t1"}, OneIP, {NameA2})
    \/ Quiet /\ AcceptDelete({"t1"}, {NameA2})
    \/ HandlePull
    \/ HandleDelete
    \/ Boot
    \/ Restart
    \/ Worker
    \/ Tick

SpecLifecycle == InitHealthy /\ [][NextLifecycle]_vars

\* The step is one of a request handler of the gateway.
HandlerStep == phase = "serving" /\ phase' = "serving" /\ th' # th

\* C24: a row appears only in a step of an enqueue handler, with status
\* pending and no error; the status and error of an existing row change only
\* in steps of the ingestion worker, of cleanup_orphaned_downloads and of
\* verify_completed_models, never in a handler's step; a row disappears only
\* in a step of cleanup_old_entries or of one of the two delete handlers.
C24_RowLifecycle ==
    [][/\ \A r \in queue' :
             r.id \notin Ids(queue) =>
                /\ r.status = "pending" /\ r.error = "NULL"
                /\ HandlerStep
                /\ \E t \in Threads :
                      /\ th[t].op \in EnqueueOps
                      /\ th'[t].queue_id = r.id
       /\ \A r \in queue, r2 \in queue' :
             (r.id = r2.id /\ (r.status # r2.status \/ r.error # r2.error)) =>
                /\ ~HandlerStep
                /\ \/ resp'.op \in {"cleanup_orphaned_downloads",
                                    "verify_completed_models"}
                   \/ th' = th /\ phase' = phase /\ resp' = Idle
       /\ \A r \in queue :
             r.id \notin Ids(queue') =>
                /\ resp'.pc = "done"
                /\ resp'.op \in DeleteOps \cup {"cleanup_old_entries"}]_vars

\* A delete handler has removed a row from a store that also holds a row
\* the worker has finished.
C24_Witness ==
    /\ resp.pc = "done" /\ resp.op \in DeleteOps /\ resp.wroteQ
    /\ \E r \in queue : r.status \in {"completed", "failed"}

\* ----------------------------------------------------- hf_backend.py
\* Quantization type preferences (from highest to lowest quality)
QUANT_PREFERENCES ==
    <<"Q8_0", "Q6_K", "Q5_K_M", "Q5_K_S", "Q4_K_M", "Q4_K_S", "Q4_0",
      "Q3_K_M", "Q3_K_S", "Q2_K">>

\* File names of a hub repository, as tokens; a quantization tag is a token
\* of its own (no tag of QUANT_PREFERENCES is part of another).
FileQ2 == <<"m-", "Q2_K", ".gguf">>
FileQ4 == <<"m-", "Q4_K_M", ".gguf">>
FileQ8 == <<"m-", "Q8_0", ".gguf">>
FileLowerQ6 == <<"m-", "q6_k", ".gguf">>
FilePlain == <<"model", ".gguf">>
GgufNames == {FileQ2, FileQ4, FileQ8, FileLowerQ6, FilePlain}

\* Files a repository lists at most.
MaxFiles == 3

\* The lists of distinct file names a repository may hold.
FileLists ==
    {fl \in UNION {[1..n -> GgufNames] : n \in 0..MaxFiles} :
        \A i, j \in DOMAIN fl : fl[i] = fl[j] => i = j}

\* The quantizations a caller may ask for.
PipelineQuants == {"Q5_K_M", "Q8_0", "q4-k-m", "F16"}

\* str.upper() on the tokens in use
upper(tok) ==
    CASE tok = "m-" -> "M-"
      [] tok = ".gguf" -> ".GGUF"
      [] tok = "model" -> "MODEL"
      [] tok = "q6_k" -> "Q6_K"
      [] tok = "q4-k-m" -> "Q4-K-M"
      [] OTHER -> tok

\* str.replace("-", "_") on the tokens in use
replace_dash(tok) ==
    CASE tok = "Q4-K-M" -> "Q4_K_M"
      [] tok = "M-" -> "M_"
      [] OTHER -> tok

\* tag in f.upper()
Contains(f, tag) == \E i \in DOMAIN f : upper(f[i]) = tag

\* Index of the first file of the list that contains the tag, 0 when none does.
FirstWith(files, tag) ==
    LET hits == {i \in DOMAIN files : Contains(files[i], tag)}
    IN IF hits = {} THEN 0 ELSE CHOOSE i \in hits : \A j \in hits : i <= j

RECURSIVE alternative(_, _)
\* for alt_quant in QUANT_PREFERENCES: for f in gguf_files: ..., from the
\* k-th preference on; then the fall back to the first file
alternative(files, k) ==
    IF k > Len(QUANT_PREFERENCES) THEN files[1]
    ELSE IF FirstWith(files, QUANT_PREFERENCES[k]) # 0
    THEN files[FirstWith(files, QUANT_PREFERENCES[k])]
    ELSE alternative(files, k + 1)

\* QUANT_PREFERENCES.index(quant_upper), -1 when it is not in the list
quant_index(q) ==
    IF \E k \in DOMAIN QUANT_PREFERENCES : QUANT_PREFERENCES[k] = q
    THEN (CHOOSE k \in DOMAIN QUANT_PREFERENCES : QUANT_PREFERENCES[k] = q) - 1
    ELSE 0 - 1

\* select_gguf_file(gguf_files, quant); <<>> is None
select_gguf_file(gguf_files, quant) ==
    LET quant_upper == replace_dash(upper(quant))
    IN IF gguf_files = <<>> THEN <<>>
       ELSE IF FirstWith(gguf_files, quant_upper) # 0
       THEN gguf_files[FirstWith(gguf_files, quant_upper)]
       ELSE IF quant_index(quant_upper) >= 0 THEN alternative(gguf_files, 1)
       ELSE gguf_files[1]

\* SUPPORTED_ARCHITECTURES
SUPPORTED_ARCHITECTURES ==
    {"LlamaForCausalLM", "MistralForCausalLM", "MixtralForCausalLM",
     "Qwen2ForCausalLM", "PhiForCausalLM", "Phi3ForCausalLM",
     "GemmaForCausalLM", "Gemma2ForCausalLM", "FalconForCausalLM",
     "GPT2LMHeadModel", "GPTNeoXForCausalLM", "StableLmForCausalLM",
     "OlmoForCausalLM"}

\* A file of a repository that is no GGUF file.
FileConfig == <<"config", ".json">>

\* The repository of a GGUF provider that search_gguf_repo tries for the
\* model.
MirrorRepo == "TheBloke/a-GGUF"
\* repo_id
OwnRepo == "org/a"

\* get_repo_files: (files, None), or ([], error) when the hub call fails.
get_repo_files(files, failed) ==
    IF failed THEN [files |-> <<>>, error |-> "API error"]
    ELSE [files |-> files, error |-> "none"]

\* What the hub may answer to the listing of the repository itself.
OwnListings ==
    {get_repo_files(<<>>, TRUE)}
    \cup {get_repo_files(fl, FALSE) : fl \in FileLists}
    \cup {get_repo_files(<<FileConfig>> \o fl, FALSE) : fl \in FileLists}

\* What the hub may answer to the listing of the provider's repository.
MirrorListings ==
    {get_repo_files(<<>>, TRUE)}
    \cup {get_repo_files(fl, FALSE) : fl \in FileLists}

\* get_model_config: (config, None) or (None, error); architectures is the
\* list config.json declares.
Configs ==
    {[architectures |-> <<>>, error |-> "config.json not found"]}
    \cup {[architectures |-> a, error |-> "none"] :
            a \in {<<>>, <<"LlamaForCausalLM">>, <<"BertModel">>,
                   <<"BertModel", "LlamaForCausalLM">>}}

\* [f for f in files if f.endswith(".gguf")]
endswith_gguf(f) == f[Len(f)] = ".gguf"
gguf_only(files) == SelectSeq(files, endswith_gguf)

\* search_gguf_repo: the first candidate whose listing comes back without an
\* error and holds a GGUF file, else None.
search_gguf_repo(candidate) ==
    IF candidate.error = "none" /\ candidate.files # <<>>
       /\ gguf_only(candidate.files) # <<>>
    THEN MirrorRepo ELSE "None"

\* ModelInfo(repo_id=repo_id)
ModelInfo ==
    [error |-> "none", has_gguf |-> FALSE, gguf_repo |-> "None",
     gguf_files |-> <<>>, architecture |-> "None", is_convertible |-> FALSE]

\* check_model(repo_id, token), on the hub's answers to its calls: own is the
\* listing of the repository, config its config.json, candidate the listing
\* search_gguf_repo gets for the provider's repository and again the listing
\* check_model asks for once the provider's repository is found.
check_model(own, config, candidate, again) ==
    IF own.error # "none" THEN [ModelInfo EXCEPT !.error = own.error]
    ELSE IF gguf_only(own.files) # <<>>
    THEN [ModelInfo EXCEPT !.has_gguf = TRUE,
                           !.gguf_files = gguf_only(own.files),
                           !.gguf_repo = OwnRepo]
    ELSE
        LET info == IF config.error = "none" /\ config.architectures # <<>>
                    THEN [ModelInfo EXCEPT
                             !.architecture = config.architectures[1],
                             !.is_convertible =
                                 config.architectures[1]
                                     \in SUPPORTED_ARCHITECTURES]
                    ELSE ModelInfo
            gguf_repo == search_gguf_repo(candidate)
        IN IF gguf_repo # "None"
           THEN [info EXCEPT !.gguf_repo = gguf_repo,
                             !.gguf_files = gguf_only(again.files),
                             !.has_gguf = TRUE]
           ELSE info

\* What check_model may return.  The second listing of the provider's
\* repository repeats the first or fails.
ModelInfos ==
    {check_model(own, config, candidate, again) :
        own \in OwnListings, config \in Configs,
        candidate \in MirrorListings, again \in {get_repo_files(<<>>, TRUE)}}
    \cup {check_model(own, config, candidate, candidate) :
            own \in OwnListings, config \in Configs,
            candidate \in MirrorListings}

\* A step of the pipeline: the locals and files it leaves.
HfStep(h2) ==
    /\ hf' = h2
    /\ UNCHANGED <<queue, rate_limits, env, th, served, started, wk>>
    /\ resp' = Idle

\* add_step(name, status): steps.append({"name": name, "status": status})
add_step(h, name, status) == [h EXCEPT !.steps = Append(@, <<name, status>>)]

\* shutil.rmtree of every directory of dirs, the files inside included
rmtree(h, dirs) ==
    [h EXCEPT !.disk_dirs = @ \ dirs,
              !.files = {p \in @ : p[1] \notin dirs}]

\* A finally clause that removes the directories only after a success.
Finally_on_success(h) ==
    IF h.cleanup /\ h.status = "completed" THEN rmtree(h, h.temp_dirs) ELSE h

\* finally: if cleanup: for temp_dir in temp_dirs: shutil.rmtree(temp_dir)
Finally(h) == IF h.cleanup THEN rmtree(h, h.temp_dirs) ELSE h

\* A stage reported an error: add_step(stage, "failed", error);
\* result.status = "failed"; result.error = error; result.steps = steps;
\* return result.to_dict(), through the finally clause.
Fail(h, stage, error) ==
    Finally([add_step(h, stage, "failed")
                EXCEPT !.pc = "returned", !.status = "failed",
                       !.error = error, !.failed_stage = stage])

\* A call of a stage raised: the exception leaves process_huggingface_model
\* through the finally clause and nothing is returned.
Raised(h) == Finally([h EXCEPT !.pc = "raised"])

\* process_huggingface_model(repo_id, model_name, quant, token, cleanup)
process_huggingface_model(quant, cleanup) ==
    /\ hf.pc = "idle"
    /\ HfStep([hf EXCEPT !.pc = "check_model", !.quant = quant,
                         !.cleanup = cleanup, !.status = "in_progress"])

\* A pipeline that prefers its own conversion to a packaged artifact.
Branch_convert_first(info) ==
    IF info.is_convertible THEN "download_model"
    ELSE IF info.has_gguf /\ info.gguf_repo # "None" THEN "select_gguf"
    ELSE "cannot be processed"

\* The branch process_huggingface_model takes on a profile.
Branch(info) ==
    IF info.has_gguf /\ info.gguf_repo # "None" THEN "select_gguf"
    ELSE IF info.is_convertible THEN "download_model"
    ELSE "cannot be processed"

\* f"Model cannot be processed: architecture '{model_info.architecture}' is
\* not supported and no GGUF version found"
error_msg(architecture) ==
    <<"Model cannot be processed: architecture '", architecture,
      "' is not supported and no GGUF version found">>

\* Step 1: model_info = check_model(repo_id, token), and the branch taken
CheckModel(info) ==
    /\ hf.pc = "check_model"
    /\ LET h1 == add_step(hf, "check_model", "running")
           h2 == [add_step(h1, "check_model", "completed")
                     EXCEPT !.has_gguf = info.has_gguf,
                            !.gguf_repo = info.gguf_repo,
                            !.gguf_files = info.gguf_files,
                            !.architecture = info.architecture,
                            !.is_convertible = info.is_convertible]
       IN HfStep(IF info.error # "none"
                 THEN [add_step(h1, "check_model", "failed")
                          EXCEPT !.pc = "returned", !.status = "failed",
                                 !.error = info.error,
                                 !.failed_stage = "check_model"]
                 ELSE IF Branch(info) = "cannot be processed"
                 THEN Fail(h2, "check_model", error_msg(info.architecture))
                 ELSE [h2 EXCEPT !.pc = Branch(info)])

\* gguf_file = select_gguf_file(model_info.gguf_files, quant)
SelectGguf ==
    /\ hf.pc = "select_gguf"
    /\ LET f == select_gguf_file(hf.gguf_files, hf.quant)
           h1 == add_step(hf, "select_gguf", "running")
       IN HfStep(IF f = <<>>
                 THEN Fail(h1, "select_gguf", "No suitable GGUF file found")
                 ELSE [add_step(h1, "select_gguf", "completed")
                          EXCEPT !.gguf_file = f, !.pc = "download_gguf"])

\* output_path = output_dir / filename, with output_dir = HF_CACHE_DIR / "gguf"
DownloadPath(filename) == <<"HF_CACHE_DIR/gguf">> \o filename
\* f16_path = temp_dir / f"{model_name}_f16.gguf"
F16Path == <<"hf_convert_", "model_name", "_f16.gguf">>
\* quant_path = output_dir / f"{model_name}_{quant}.gguf"
QuantPath(quant) == <<"HF_CACHE_DIR/gguf", "model_name", "_", quant, ".gguf">>

\* download_gguf: output_dir.mkdir, which may raise, then the first program
\* found: huggingface-cli, wget, or urllib
DownloadGgufBegin(found) ==
    /\ hf.pc = "download_gguf"
    /\ LET h1 == add_step(hf, "download_gguf", "running")
       IN HfStep(IF found = "mkdir raises" THEN Raised(h1)
                 ELSE [h1 EXCEPT !.pc = "downloading", !.tool = found])

\* wget -c -O output_path, and open(output_path, "wb"): the file is created
\* under its final name and filled as the bytes arrive.  huggingface-cli
\* keeps the bytes elsewhere until it has them all.
DownloadGgufWrite ==
    /\ hf.pc = "downloading"
    /\ hf.tool \in {"wget", "urllib"}
    /\ hf.final = "absent"
    /\ HfStep([hf EXCEPT !.final = "partial"])

\* download_gguf: how the running program ends
DownloadGgufEnd(outcome) ==
    /\ hf.pc = "downloading"
    /\ CASE outcome = "ok" ->
              HfStep([add_step(hf, "download_gguf", "completed")
                         EXCEPT !.final = "complete",
                                !.files = @ \cup {DownloadPath(hf.gguf_file)},
                                !.gguf_path = DownloadPath(hf.gguf_file),
                                !.pc = "create_modelfile"])
         [] outcome = "missing" ->
              /\ hf.tool = "huggingface-cli"
              /\ HfStep(Fail(hf, "download_gguf",
                             "Download completed but file not found"))
         [] outcome = "timeout" ->
              /\ hf.tool # "urllib"
              /\ HfStep(Fail(hf, "download_gguf", "Download timed out"))
         [] outcome = "error" ->
              IF hf.tool = "huggingface-cli"
              THEN \E next \in {"wget", "urllib"} :
                      HfStep([hf EXCEPT !.tool = next])
              ELSE HfStep(Fail(hf, "download_gguf", "Download failed"))
         [] OTHER -> FALSE

\* add_step("download_model", "running");
\* temp_dir = Path(tempfile.mkdtemp(prefix="hf_convert_")); temp_dirs.append
MakeTemp(ok) ==
    /\ hf.pc = "download_model"
    /\ LET h1 == add_step(hf, "download_model", "running")
       IN HfStep(IF ok
                 THEN [h1 EXCEPT !.temp_dirs = @ \cup {"hf_convert_"},
                                 !.disk_dirs = @ \cup {"hf_convert_"},
                                 !.pc = "download_model_for_conversion"]
                 ELSE Raised(h1))

\* A stage that returns (value, error) or raises, and the stage after it:
\* h is the state once the stage is marked running, done what its success
\* leaves.
Stage(stage, h, done, next, outcome, error) ==
    /\ hf.pc = stage
    /\ HfStep(CASE outcome = "ok" ->
                      [add_step(done, h.steps[Len(h.steps)][1], "completed")
                          EXCEPT !.pc = next]
                [] outcome = "error" ->
                      Fail(h, h.steps[Len(h.steps)][1], error)
                [] OTHER -> Raised(h))

StageOutcomes == {"ok", "error", "raises"}

\* model_dir, error = download_model_for_conversion(repo_id, temp_dir, token)
download_model_for_conversion(outcome) ==
    Stage("download_model_for_conversion", hf, hf, "convert_to_gguf", outcome,
          "Download failed")

\* gguf_path, error = convert_to_gguf(model_dir, str(f16_path), "f16"), which
\* returns the path only when the file exists; then
\* if quant.upper() != "F16": quantize
convert_to_gguf(outcome) ==
    LET h == add_step(hf, "convert_to_gguf", "running")
    IN Stage("convert_to_gguf", h,
             [h EXCEPT !.files = @ \cup {F16Path}, !.gguf_path = F16Path],
             IF upper(hf.quant) # "F16" THEN "quantize" ELSE "create_modelfile",
             outcome, "Conversion failed")

\* output_dir.mkdir; final_path, error = quantize_gguf(gguf_path, quant_path,
\* quant), which returns the path only when the file exists;
\* gguf_path = final_path
quantize_gguf(outcome) ==
    LET h == add_step(hf, "quantize", "running")
    IN Stage("quantize", h,
             [h EXCEPT !.files = @ \cup {QuantPath(hf.quant)},
                       !.gguf_path = QuantPath(hf.quant)],
             "create_modelfile", outcome, "Quantization failed")

\* modelfile_path, error = create_modelfile(gguf_path, model_name): the
\* descriptor's FROM line is gguf_path
create_modelfile(outcome) ==
    LET h == add_step(hf, "create_modelfile", "running")
    IN Stage("create_modelfile", h, [h EXCEPT !.modelfile_from = h.gguf_path],
             "import_to_ollama", outcome, "Failed to create Modelfile")

\* success, error = import_to_ollama(modelfile_path, model_name); every
\* exception is caught inside it
import_to_ollama(success) ==
    /\ hf.pc = "import_to_ollama"
    /\ LET h == add_step(hf, "import_to_ollama", "running")
       IN HfStep(IF success
                 THEN Finally([add_step(h, "import_to_ollama", "completed")
                                  EXCEPT !.pc = "returned",
                                         !.status = "completed",
                                         !.imported = TRUE])
                 ELSE Fail(h, "import_to_ollama", "Import failed"))

\* One run of the pipeline on every input and with every outcome of its
\* stages.
NextPipeline ==
    \/ \E q \in PipelineQuants, c \in BOOLEAN : process_huggingface_model(q, c)
    \/ \E info \in ModelInfos : CheckModel(info)
    \/ SelectGguf
    \/ \E found \in {"mkdir raises", "huggingface-cli", "wget", "urllib"} :
          DownloadGgufBegin(found)
    \/ DownloadGgufWrite
    \/ \E outcome \in {"ok", "missing", "timeout", "error"} :
          DownloadGgufEnd(outcome)
    \/ \E ok \in BOOLEAN : MakeTemp(ok)
    \/ \E outcome \in StageOutcomes :
          \/ download_model_for_conversion(outcome)
          \/ convert_to_gguf(outcome)
          \/ quantize_gguf(outcome)
          \/ create_modelfile(outcome)
    \/ \E success \in BOOLEAN : import_to_ollama(success)

SpecPipeline == InitHealthy /\ [][NextPipeline]_vars

\* C25: when the list is not empty and no file name contains the requested
\* quantization Q, the selected file is the first file containing the best
\* tag of higher quality than Q that any file contains, and it is the first
\* file of the list when no file contains a tag of higher quality than Q.
C25_HigherQualityOrFirst ==
    LET q == replace_dash(upper(hf.quant))
        files == hf.gguf_files
        higher == {k \in DOMAIN QUANT_PREFERENCES :
                      /\ k < quant_index(q) + 1
                      /\ FirstWith(files, QUANT_PREFERENCES[k]) # 0}
        best == CHOOSE k \in higher : \A j \in higher : k <= j
    IN (hf.gguf_file # <<>> /\ quant_index(q) >= 0 /\ FirstWith(files, q) = 0)
          => hf.gguf_file =
                IF higher # {}
                THEN files[FirstWith(files, QUANT_PREFERENCES[best])]
                ELSE files[1]

\* The call of process_huggingface_model is over.
Ended == hf.pc \in {"returned", "raised"}

\* C26: the pipeline always ends by returning a terminal outcome that matches
\* what happened: completed exactly when every stage up to the registration
\* with the backend succeeded, otherwise failed with the diagnostic of the
\* first stage that failed; it never ends without a result or with a status
\* that is not terminal.
C26_TerminalOutcome ==
    Ended =>
        /\ hf.pc = "returned"
        /\ hf.status \in {"completed", "failed"}
        /\ hf.status = "completed" <=> (hf.imported /\ hf.failed_stage = "none")
        /\ hf.status = "failed" =>
              hf.error # "none" /\ hf.failed_stage # "none"

\* C27: when the call is over every working directory it created has been
\* removed if cleanup is enabled, whether it ended in success, in the failure
\* of a stage or in an exception; with cleanup disabled the directories it
\* created are all still there.
C27_WorkingDirsRemoved ==
    Ended =>
        hf.disk_dirs = IF hf.cleanup THEN {} ELSE hf.temp_dirs

\* The call created a working directory, a later stage raised, and the
\* directory is gone.
C27_Witness ==
    /\ hf.pc = "raised" /\ hf.cleanup
    /\ hf.temp_dirs # {} /\ hf.disk_dirs = {}

\* C28: the file at output_dir / filename is never seen partially written:
\* at every instant it is absent or complete.
C28_NoTornFinalName ==
    hf.final \in {"absent", "complete"}

\* ----------------------------------------------------- enqueue and quota
\* The positions of a handler thread inside add_to_queue.
InAddToQueue == {"add_to_queue", "pull_insert", "pull_incr"}

\* C29: the enqueue operation does not touch the rate limiter: no step a
\* thread takes inside add_to_queue changes the rate_limits table.
C29_EnqueueLeavesLimiter ==
    [][\A t \in Threads :
          (th[t].pc \in InAddToQueue /\ th'[t] # th[t])
              => rate_limits' = rate_limits]_vars

\* The hub repositories a stored model field stands for: the field is the
\* repo_id itself or the JSON object that carries it.
HubRepoOf(model) ==
    {repo \in HubRepos :
        \/ model = repo
        \/ \E q \in Quants : model = json_dumps(repo, q)}

\* C30: POST /api/hf/queue deduplicates by repository: no repository has two
\* pending hub rows, whatever quantization the requests carried.
C30_HubDedupByRepo ==
    \A r1, r2 \in queue :
        (/\ r1.status = "pending" /\ r2.status = "pending"
         /\ r1.type = "huggingface" /\ r2.type = "huggingface"
         /\ HubRepoOf(r1.model) \cap HubRepoOf(r2.model) # {})
            => r1.id = r2.id

\* ----------------------------------------------------- the pipeline's paths
\* The names of the steps recorded so far.
StepNames == {hf.steps[i][1] : i \in DOMAIN hf.steps}
PackagedSteps == {"select_gguf", "download_gguf"}
ConvertSteps == {"download_model", "convert_to_gguf", "quantize"}

C32_PackagedHasFiles ==
    hf.has_gguf => (hf.gguf_repo # "None" /\ hf.gguf_files # <<>>)

\* C39: when the pipeline returns completed, the artifact path it reports,
\* which is the path written into the Modelfile, names a file that still
\* exists after the return, for every quantization, F16 on the conversion
\* path with cleanup enabled included.
C39_ArtifactExists ==
    (hf.pc = "returned" /\ hf.status = "completed") =>
        /\ hf.modelfile_from = hf.gguf_path
        /\ hf.gguf_path \in hf.files

\* The records of the step list that end a step of the given name.
Closing(name) ==
    {j \in DOMAIN hf.steps :
        hf.steps[j][1] = name /\ hf.steps[j][2] \in {"completed", "failed"}}

\* C40: the stages run in a fixed order and a stage starts only after the
\* one before it succeeded: in the step list of a returned run every step
\* marked running is followed by exactly one completed or failed record of
\* the same name, no record follows a failed one, and the registration is
\* attempted only with an artifact and a Modelfile in hand.
C40_StepRecords ==
    hf.pc = "returned" =>
        /\ \A i \in DOMAIN hf.steps :
              hf.steps[i][2] = "running" =>
                  /\ Cardinality(Closing(hf.steps[i][1])) = 1
                  /\ \A j \in Closing(hf.steps[i][1]) : j > i
        /\ \A i \in DOMAIN hf.steps :
              hf.steps[i][2] = "failed" => i = Len(hf.steps)
        /\ "import_to_ollama" \in StepNames =>
              hf.gguf_path # <<>> /\ hf.modelfile_from # <<>>

\* ----------------------------------------------------- GET /api/health
\* What urlopen(OLLAMA_BACKEND/api/tags) does in handle_health_request: it
\* returns a response of status 200 or of another success status, or raises
\* (connection refused, timeout, HTTPError).
BackendProbes == {"200", "204", "raises"}

\* do_GET /api/health -> handle_health_request.  probe is the backend's
\* answer and db_ok whether SELECT 1 succeeds.
handle_health_request(t, probe, db_ok) ==
    /\ CanAccept(t)
    /\ UNCHANGED env
    /\ LET backend == IF probe = "200" THEN [status |-> "ok", error |-> "none"]
                      ELSE IF probe = "raises"
                      THEN [status |-> "error", error |-> "URLError"]
                      ELSE [status |-> "error", error |-> "none"]
           s1 == IF probe = "200" THEN "healthy"
                 ELSE IF probe = "raises" THEN "unhealthy" ELSE "degraded"
           disk_stats == check_disk_space(disk)
           s2 == IF disk_stats.status = "critical" THEN "unhealthy"
                 ELSE IF disk_stats.status = "warning" /\ s1 = "healthy"
                 THEN "degraded"
                 ELSE IF disk_stats.status = "error" THEN "degraded"
                 ELSE s1
           database == IF db_ok THEN "ok" ELSE "error"
           overall_status == IF ~db_ok /\ s2 = "healthy" THEN "degraded" ELSE s2
           l == [Idle EXCEPT !.op = "handle_health_request",
                             !.checks = [proxy |-> "ok", backend |-> backend,
                                         disk |-> disk_stats,
                                         database |-> database]]
       IN Reply(t, queue, rate_limits, l, 200, overall_status)

\* What os.statvfs may return after it returned stat: a block more or less
\* in use, or a failure; after a failure, any of DiskReadings or an empty
\* file system.
StatvfsReadings(stat) ==
    IF stat.oserror THEN DiskReadings \cup {statvfs(0, 0, 1024)}
    ELSE {StatvfsError}
         \cup {statvfs(stat.f_blocks, a, stat.f_frsize) :
                 a \in {x \in (stat.f_bavail - 1)..(stat.f_bavail + 1) :
                           x >= 0 /\ x <= stat.f_blocks}}

\* GET /api/health on every disk, with the backend answering or not and the
\* database readable or not.
NextHealth ==
    \/ Boot
    \/ \E probe \in BackendProbes, db_ok \in BOOLEAN :
          handle_health_request("t1", probe, db_ok)
    \/ \E d \in StatvfsReadings(disk) : DiskChange(d)

SpecHealth == Init /\ [][NextHealth]_vars

\* C33: the disk guard's status is critical exactly when the used percentage
\* is at or above the threshold, warning exactly when it is at or above the
\* threshold minus ten and below the threshold, ok below that, and error
\* exactly when the file system query fails; the ok flag is false exactly
\* for critical and error; the used percentage is the integer percentage of
\* used space, truncated, and 0 for a file system of size 0.
C33_DiskStatus ==
    Answered("handle_health_request") =>
        LET d == resp.checks.disk
            total == disk.f_blocks * disk.f_frsize
            used == total - disk.f_bavail * disk.f_frsize
            pct == IF total = 0 THEN 0 ELSE (100 * used) \div total
        IN /\ (d.status = "error") <=> disk.oserror
           /\ ~d.ok <=> d.status \in {"critical", "error"}
           /\ ~disk.oserror =>
                 /\ d.used_percent = pct
                 /\ (d.status = "critical") <=> (pct >= DISK_THRESHOLD)
                 /\ (d.status = "warning") <=>
                       (pct >= DISK_THRESHOLD - 10 /\ pct < DISK_THRESHOLD)
                 /\ (d.status = "ok") <=> (pct < DISK_THRESHOLD - 10)

\* healthy < degraded < unhealthy
Severity(s) ==
    CASE s = "healthy" -> 0 [] s = "degraded" -> 1 [] OTHER -> 2

\* C36: the overall health status is at least as severe as each check
\* implies: an unreachable backend or a critical disk gives unhealthy
\* whatever the other checks report, no later check lowers the severity an
\* earlier one set, and healthy is reported only when backend, disk and
\* database all report ok.
C36_HealthSeverity ==
    Answered("handle_health_request") =>
        LET c == resp.checks
        IN /\ (c.backend.error # "none" \/ c.disk.status = "critical")
                 => resp.status = "unhealthy"
           /\ (c.backend.status # "ok" \/ c.disk.status # "ok"
               \/ c.database # "ok") => Severity(resp.status) >= 1
           /\ resp.status = "healthy" =>
                 (c.backend.status = "ok" /\ c.disk.status = "ok"
                  /\ c.database = "ok")

\* ----------------------------------------------------- GET /api/queue
\* The orders in which SELECT ... ORDER BY created_at ASC may return rows:
\* ascending created_at; the order of rows with equal created_at is not
\* specified by the statement.
OrderByCreatedAsc(rows) ==
    {s \in [1..Cardinality(rows) -> rows] :
        /\ \A i, j \in DOMAIN s : s[i] = s[j] => i = j
        /\ \A i, j \in DOMAIN s : i < j => s[i].created_at <= s[j].created_at}

\* The same for ORDER BY updated_at DESC.
OrderByUpdatedDesc(rows) ==
    {s \in [1..Cardinality(rows) -> rows] :
        /\ \A i, j \in DOMAIN s : s[i] = s[j] => i = j
        /\ \A i, j \in DOMAIN s : i < j => s[i].updated_at >= s[j].updated_at}

\* LIMIT n
Limit(s, n) == SubSeq(s, 1, IF Len(s) < n THEN Len(s) ELSE n)

\* SELECT status, COUNT(*) FROM queue GROUP BY status, read with .get(s, 0)
status_counts ==
    [s \in {"pending", "downloading", "completed", "failed"} |->
        Cardinality({r \in queue : r.status = s})]

\* do_GET /api/queue -> handle_queue_request: get_queue_status()
handle_queue_request(t) ==
    /\ CanAccept(t)
    /\ UNCHANGED env
    /\ \E pending \in OrderByCreatedAsc(
                         {r \in queue : r.status \in {"pending", "downloading"}}),
          recent \in OrderByUpdatedDesc(
                         {r \in queue : r.status \in {"completed", "failed"}}) :
          Reply(t, queue, rate_limits,
                [Idle EXCEPT !.op = "handle_queue_request",
                             !.counts = status_counts,
                             !.active = Limit(pending, 50),
                             !.recent = Limit(recent, 10)],
                200, "queue")

\* GET /api/queue between enqueue requests of one address, with the
\* ingestion worker beside them, over several days.
NextQueueStatus ==
    \/ Quiet /\ AcceptPull({"t1"}, OneIP, PullNames)
    \/ Quiet /\ handle_queue_request("t1")
    \/ HandlePull
    \/ Boot
    \/ Worker
    \/ Tick

SpecQueueStatus == InitHealthy /\ [][NextQueueStatus]_vars

\* C34: the order is FIFO by created_at with ties broken by id: the active
\* list of GET /api/queue lists the rows in ascending creation time, rows
\* with equal created_at in ascending id order.
C34_FifoTiesById ==
    Answered("handle_queue_request") =>
        \A i, j \in DOMAIN resp.active :
            i < j =>
                \/ resp.active[i].created_at < resp.active[j].created_at
                \/ /\ resp.active[i].created_at = resp.active[j].created_at
                   /\ resp.active[i].id < resp.active[j].id

C35_OneResponse ==
    (AnsweredLine /\ resp.op = "proxy_request") => Len(resp.wire) <= 1

\* ----------------------------------------------------- registered names
\* A hub repository with an owner, capitals and an underscore.
NameOrgModel == <<"Org", "/", "My_Model">>
ReconcileRepos == {NameA, NameOrgModel}

RECURSIVE AfterLastSlash(_)
\* repo_id.split("/")[-1]
AfterLastSlash(s) ==
    IF \E i \in DOMAIN s : s[i] = "/" THEN AfterLastSlash(Tail(s)) ELSE s

\* str.lower() on the tokens in use
str_lower(tok) ==
    CASE tok = "My_Model" -> "my_model"
      [] tok = "Org" -> "org"
      [] OTHER -> tok

\* ''.join(c if c.isalnum() or c == '-' else '-' for c in raw_name), then
\* the runs of hyphens collapsed and the ends stripped, on the tokens in use
sanitize(tok) ==
    CASE tok = "my_model" -> "my-model"
      [] tok = "/" -> "-"
      [] OTHER -> tok

\* str.replace('_', '-') on the tokens in use
replace_underscore(tok) ==
    CASE tok = "my_model" -> "my-model"
      [] tok = "My_Model" -> "My-Model"
      [] OTHER -> tok

\* The default model_name of process_huggingface_model(repo_id)
default_model_name(repo_id) ==
    [i \in DOMAIN AfterLastSlash(repo_id) |->
        sanitize(str_lower(AfterLastSlash(repo_id)[i]))]

\* import_to_ollama: safe_model_name = model_name.lower().replace('_', '-'),
\* and the name the backend lists for ollama create <name>: <name>:latest
registered_name(model_name) ==
    [i \in DOMAIN model_name |-> replace_underscore(str_lower(model_name[i]))]
    \o <<":", "latest">>

\* The repository a hub row's model field stands for.
repo_id_of(model) ==
    CHOOSE repo \in ReconcileRepos :
        \/ model = repo
        \/ \E q \in Quants : model = json_dumps(repo, q)

\* The worker's pipeline run for the hub row it owns succeeded: the backend
\* has registered the model and the row is completed.
WorkerRegister(id) ==
    /\ \E r \in queue :
          /\ r.id = id /\ r.status = "downloading" /\ r.type = "huggingface"
          /\ backend_models' = backend_models
                \cup {registered_name(default_model_name(repo_id_of(r.model)))}
    /\ queue' = {IF r.id = id
                 THEN [r EXCEPT !.status = "completed", !.updated_at = now]
                 ELSE r : r \in queue}
    /\ UNCHANGED <<rate_limits, next_id, now, disk, phase, th, served, started,
                   wk, hf>>
    /\ resp' = Idle

\* Hub requests of one address, the worker registering what it ingests, and
\* the process started again and again.
NextReconcile ==
    \/ Quiet /\ AcceptHf({"t1"}, OneIP, ReconcileRepos)
    \/ HandleHf
    \/ Boot
    \/ Restart
    \/ \E id \in 1..MaxId : WorkerClaim(id) \/ WorkerRegister(id)

SpecReconcile == InitHealthy /\ [][NextReconcile]_vars

\* C38: a hub row that was completed because its model was registered with
\* the backend stays completed across a restart of the gateway while the
\* backend still holds that model: no step resets such a row.
C38_RegisteredStaysCompleted ==
    [][\A r \in queue :
          (/\ r.type = "huggingface" /\ r.status = "completed"
           /\ registered_name(default_model_name(repo_id_of(r.model)))
                 \in backend_models
           /\ backend_models' = backend_models)
              => r \in queue']_vars

====
